---- MODULE Spec2Model ----
(***************************************************************************)
(* Collate_Project: the TTL cache, the two CSV resolvers and the ticket    *)
(* pipelines of src/refactor.py (process_tickets) and src/main.py          *)
(* (collate_ticket_results and the --batch merge).                         *)
(*                                                                         *)
(* Strings are sequences of one-letter strings, so that strip() and        *)
(* upper() are computed; Python's None is the tuple <<"None">> where a     *)
(* string may stand, and the record Absent where a result may stand.       *)
(***************************************************************************)
EXTENDS Integers, Sequences, FiniteSets, TLC

VARIABLES now, cache, assets, distros, enabled, cfgOk, last, fill,
          prog, run, result, agg

\* the clock, the cache, the two sources and the configuration
cvars == <<now, cache, assets, distros, enabled, cfgOk, last, fill>>
\* the pipeline that is running, its locals and what it returned
pvars == <<prog, run, result, agg>>
vars == <<cvars, pvars>>

(***************************************************************************)
(* Bounds                                                                  *)
(***************************************************************************)
\* CONFIG['cache']['ttl_seconds'] in clock ticks
TTL == 2
\* the clock runs from 0 to MaxTime
MaxTime == 4

(***************************************************************************)
(* Python values                                                           *)
(***************************************************************************)
None == <<"None">>
Absent == [absent |-> TRUE]
NoError == "no_error"

UpperChar(c) == IF c = "a" THEN "A" ELSE IF c = "b" THEN "B" ELSE c

\* str.upper()
StrUpper(s) == [i \in 1..Len(s) |-> UpperChar(s[i])]

\* whitespace (the class \s)
IsSpace(c) == c \in {" ", "\n"}

RECURSIVE LStrip(_)
LStrip(s) == IF s # <<>> /\ IsSpace(Head(s)) THEN LStrip(Tail(s)) ELSE s

RECURSIVE RStrip(_)
RStrip(s) == IF s # <<>> /\ IsSpace(s[Len(s)]) THEN RStrip(SubSeq(s, 1, Len(s) - 1)) ELSE s

\* str.strip()
Strip(s) == RStrip(LStrip(s))

(***************************************************************************)
(* The two CSV files.  A file is [exists, rows]; a row is a tuple of       *)
(* cells, the first row is the header, an empty cell reads as NaN (None).  *)
(***************************************************************************)
\* CONFIG['csv_columns']['assets_csv'] (0-based, as in iloc)
hostname_col == 0
support_group_col == 1
\* CONFIG['csv_columns']['email_distros_csv']
distros_group_col == 0
email_distros_col == 1
individual_contacts_col == 2
notes_col == 3

Max2(a, b) == IF a >= b THEN a ELSE b

HostA == <<"a">>
HostUpA == <<"A">>
HostB == <<"b">>
GroupX == <<"x">>
GroupY == <<"y">>

\* the hostnames the callers ask for
HostArgs == {HostA}
\* the support groups the callers ask for (None: a NaN support-group cell)
GroupArgs == {GroupX}

MissingFile == [exists |-> FALSE, rows |-> <<>>]

\* the states of the assets CSV: missing, too few columns, and two tables
\* (the header row of each would match a lookup of "a" if it were not skipped)
AssetsFiles ==
  { MissingFile,
    [exists |-> TRUE, rows |-> << <<HostA>>, <<HostA>> >>],
    [exists |-> TRUE, rows |-> << <<HostA, GroupY>>, <<HostA, GroupX>>, <<HostA, GroupY>>,
                                  <<HostB, GroupX>> >>],
    [exists |-> TRUE, rows |-> << <<HostA, GroupX>>, <<<<"a", "b">>, GroupY>>,
                                  <<<<" ", "A", " ">>, None>> >>] }

MailX == <<"m">>
MailY == <<"n">>

\* the states of the email-distros CSV: missing, too few columns, and two tables
DistrosFiles ==
  { MissingFile,
    [exists |-> TRUE, rows |-> << <<GroupX, MailY>>, <<GroupX, MailX>> >>],
    [exists |-> TRUE, rows |-> << <<GroupX, MailY, None, None>>, <<<<"X", " ">>, MailX, None, MailY>>,
                                  <<GroupX, MailY, MailY, None>> >>],
    [exists |-> TRUE, rows |-> << <<GroupX, MailX, None, None>>, <<GroupY, MailY, MailX, None>> >>] }

\* pd.read_csv: FileNotFoundError, EmptyDataError, or header + data rows
ReadCsv(file) ==
  IF ~file.exists THEN [err |-> "file_not_found", ncols |-> 0, data |-> <<>>]
  ELSE IF file.rows = <<>> THEN [err |-> "exception", ncols |-> 0, data |-> <<>>]
  ELSE [err |-> NoError, ncols |-> Len(Head(file.rows)), data |-> Tail(file.rows)]

\* df[df.iloc[:, col].str.strip().str.upper() == wanted]: the matching row numbers
MatchRows(data, col, wanted) ==
  {i \in 1..Len(data) : /\ data[i][col + 1] # None
                        /\ StrUpper(Strip(data[i][col + 1])) = wanted}

\* the last matching row in file order
LastRow(rows) == CHOOSE i \in rows : \A j \in rows : i >= j

\* .iloc[0]: the first matching row in file order
FirstRow(rows) == CHOOSE i \in rows : \A j \in rows : i <= j

(***************************************************************************)
(* SimpleCache: a dict key -> (value, timestamp)                           *)
(***************************************************************************)
CacheStore(c, key, entry) ==
  [k \in DOMAIN c \cup {key} |-> IF k = key THEN entry ELSE c[k]]

CacheDrop(c, key) == [k \in DOMAIN c \ {key} |-> c[k]]

\* a get that still trusts an entry of age exactly TTL
CacheGetInclusive(c, key, t) ==
  IF key \in DOMAIN c
  THEN IF t - c[key].timestamp <= TTL
       THEN [value |-> c[key].value, cache |-> c]
       ELSE [value |-> Absent, cache |-> CacheDrop(c, key)]
  ELSE [value |-> Absent, cache |-> c]

\* a get that never expires an entry
CacheGetNoExpiry(c, key, t) ==
  IF key \in DOMAIN c
  THEN [value |-> c[key].value, cache |-> c]
  ELSE [value |-> Absent, cache |-> c]

\* a get whose hit restarts the age of the entry
CacheGetTouching(c, key, t) ==
  IF key \in DOMAIN c
  THEN IF t - c[key].timestamp < TTL
       THEN [value |-> c[key].value,
             cache |-> CacheStore(c, key, [value |-> c[key].value, timestamp |-> t])]
       ELSE [value |-> Absent, cache |-> CacheDrop(c, key)]
  ELSE [value |-> Absent, cache |-> c]

\* a get that also drops the expired entries of the other keys
CacheGetSweeping(c, key, t) ==
  LET kept == [k \in {j \in DOMAIN c : t - c[j].timestamp < TTL} |-> c[k]]
  IN IF key \in DOMAIN kept
     THEN [value |-> c[key].value, cache |-> kept]
     ELSE [value |-> Absent, cache |-> kept]

\* SimpleCache.get: the returned value and the dict after the call
CacheGet(c, key, t) ==
  IF key \in DOMAIN c
  THEN IF t - c[key].timestamp < TTL
       THEN [value |-> c[key].value, cache |-> c]
       ELSE [value |-> Absent, cache |-> CacheDrop(c, key)]
  ELSE [value |-> Absent, cache |-> c]

\* a set that leaves an entry already stored for the key as it is
CacheSetIfAbsent(c, key, value, t) ==
  IF key \in DOMAIN c THEN c ELSE CacheStore(c, key, [value |-> value, timestamp |-> t])

\* SimpleCache.set
CacheSet(c, key, value, t) == CacheStore(c, key, [value |-> value, timestamp |-> t])

\* a clear that spares the support-group entries
CacheClearSparing(c) == [k \in {j \in DOMAIN c : j[1] = "support_group"} |-> c[k]]

\* SimpleCache.clear
CacheClear(c) == << >>

(***************************************************************************)
(* The resolvers.  Each returns [ret, cache, read]: the returned dict, the *)
(* cache after the call, and whether pd.read_csv was called.               *)
(***************************************************************************)
SgKey(hostname) == <<"support_group", hostname>>
AoKey(group) == <<"app_owners", group>>

SgResult(hostname, group, found, error) ==
  [hostname |-> hostname, support_group |-> group, found |-> found, error |-> error]

\* a try block whose failure results are stored like the others
QuerySupportGroupCachingErrors(hostname, c, t, file, cacheOn, cfg) ==
  LET key == SgKey(hostname)
      df == ReadCsv(file)
      hostname_match == MatchRows(df.data, hostname_col, StrUpper(Strip(hostname)))
      ret == IF ~cfg THEN SgResult(hostname, None, FALSE, "config_missing")
             ELSE IF df.err # NoError THEN SgResult(hostname, None, FALSE, df.err)
             ELSE IF df.ncols <= Max2(hostname_col, support_group_col)
             THEN SgResult(hostname, None, FALSE, "columns")
             ELSE IF hostname_match # {}
             THEN SgResult(hostname, df.data[FirstRow(hostname_match)][support_group_col + 1],
                           TRUE, NoError)
             ELSE SgResult(hostname, None, FALSE, NoError)
  IN [ret |-> ret, cache |-> IF cacheOn THEN CacheSet(c, key, ret, t) ELSE c, read |-> cfg]

\* the try block of get_support_group
QuerySupportGroup(hostname, c, t, file, cacheOn, cfg) ==
  LET key == SgKey(hostname)
      df == ReadCsv(file)
      max_col_needed == Max2(hostname_col, support_group_col)
      hostname_match == MatchRows(df.data, hostname_col, StrUpper(Strip(hostname)))
      cell == df.data[FirstRow(hostname_match)][support_group_col + 1]
      hit == SgResult(hostname, cell, TRUE, NoError)
      miss == SgResult(hostname, None, FALSE, NoError)
  IN IF ~cfg
     THEN [ret |-> SgResult(hostname, None, FALSE, "config_missing"), cache |-> c, read |-> FALSE]
     ELSE IF df.err # NoError
     THEN [ret |-> SgResult(hostname, None, FALSE, df.err), cache |-> c, read |-> TRUE]
     ELSE IF df.ncols <= max_col_needed
     THEN [ret |-> SgResult(hostname, None, FALSE, "columns"), cache |-> c, read |-> TRUE]
     ELSE IF hostname_match # {}
     THEN [ret |-> hit, cache |-> IF cacheOn THEN CacheSet(c, key, hit, t) ELSE c, read |-> TRUE]
     ELSE [ret |-> miss, cache |-> IF cacheOn THEN CacheSet(c, key, miss, t) ELSE c, read |-> TRUE]

\* a resolver that never consults the cache
get_support_group_uncached(hostname, use_cache, c, t, file, cacheOn, cfg) ==
  QuerySupportGroup(hostname, c, t, file, cacheOn, cfg)

\* a resolver whose use_cache=False call does not store its result either
get_support_group_no_refresh(hostname, use_cache, c, t, file, cacheOn, cfg) ==
  LET got == CacheGet(c, SgKey(hostname), t)
  IN IF use_cache /\ cacheOn
     THEN IF got.value # Absent
          THEN [ret |-> got.value, cache |-> got.cache, read |-> FALSE]
          ELSE QuerySupportGroup(hostname, got.cache, t, file, cacheOn, cfg)
     ELSE QuerySupportGroup(hostname, c, t, file, cacheOn /\ use_cache, cfg)

get_support_group(hostname, use_cache, c, t, file, cacheOn, cfg) ==
  LET got == CacheGet(c, SgKey(hostname), t)
  IN IF use_cache /\ cacheOn
     THEN IF got.value # Absent
          THEN [ret |-> got.value, cache |-> got.cache, read |-> FALSE]
          ELSE QuerySupportGroup(hostname, got.cache, t, file, cacheOn, cfg)
     ELSE QuerySupportGroup(hostname, c, t, file, cacheOn, cfg)

NoContacts == [empty |-> TRUE]

AoResult(group, contacts, found, error) ==
  [support_group |-> group, contacts |-> contacts, found |-> found, error |-> error]

\* the try block of get_app_owners
QueryAppOwners(group, c, t, file, cacheOn, cfg) ==
  LET key == AoKey(group)
      df == ReadCsv(file)
      max_col_needed == Max2(Max2(distros_group_col, email_distros_col),
                             Max2(individual_contacts_col, notes_col))
      group_match == MatchRows(df.data, distros_group_col, StrUpper(Strip(group)))
      row == df.data[FirstRow(group_match)]
      hit == AoResult(group,
                      [app_owner |-> row[distros_group_col + 1],
                       email_distros |-> row[email_distros_col + 1],
                       individual_contacts |-> row[individual_contacts_col + 1],
                       notes |-> row[notes_col + 1]],
                      TRUE, NoError)
      miss == AoResult(group, NoContacts, FALSE, NoError)
  IN IF ~cfg
     THEN [ret |-> AoResult(group, NoContacts, FALSE, "config_missing"), cache |-> c, read |-> FALSE]
     ELSE IF df.err # NoError
     THEN [ret |-> AoResult(group, NoContacts, FALSE, df.err), cache |-> c, read |-> TRUE]
     ELSE IF df.ncols <= max_col_needed
     THEN [ret |-> AoResult(group, NoContacts, FALSE, "columns"), cache |-> c, read |-> TRUE]
     ELSE IF group = None
     \* None.strip() raises AttributeError, caught by except Exception
     THEN [ret |-> AoResult(group, NoContacts, FALSE, "exception"), cache |-> c, read |-> TRUE]
     ELSE IF group_match # {}
     THEN [ret |-> hit, cache |-> IF cacheOn THEN CacheSet(c, key, hit, t) ELSE c, read |-> TRUE]
     ELSE [ret |-> miss, cache |-> IF cacheOn THEN CacheSet(c, key, miss, t) ELSE c, read |-> TRUE]

\* a resolver that consults the cache whatever the configuration says
get_app_owners_reading_anyway(group, use_cache, c, t, file, cacheOn, cfg) ==
  LET got == CacheGet(c, AoKey(group), t)
  IN IF use_cache
     THEN IF got.value # Absent
          THEN [ret |-> got.value, cache |-> got.cache, read |-> FALSE]
          ELSE QueryAppOwners(group, got.cache, t, file, cacheOn, cfg)
     ELSE QueryAppOwners(group, c, t, file, cacheOn, cfg)

get_app_owners(group, use_cache, c, t, file, cacheOn, cfg) ==
  LET got == CacheGet(c, AoKey(group), t)
  IN IF use_cache /\ cacheOn
     THEN IF got.value # Absent
          THEN [ret |-> got.value, cache |-> got.cache, read |-> FALSE]
          ELSE QueryAppOwners(group, got.cache, t, file, cacheOn, cfg)
     ELSE QueryAppOwners(group, c, t, file, cacheOn, cfg)

(***************************************************************************)
(* parse_ticket of refactor.py.  In a ticket text the letters "S" and "s"  *)
(* stand for the marker "Server:" and "server:" (re.IGNORECASE); every     *)
(* other element is one character.  A ticket file is [exists, readable,    *)
(* text].                                                                  *)
(***************************************************************************)
IsMarker(c) == c \in {"S", "s"}

\* the first index >= i of text that holds no whitespace (Len + 1 if none)
RECURSIVE SkipSpace(_, _)
SkipSpace(text, i) ==
  IF i <= Len(text) /\ IsSpace(text[i]) THEN SkipSpace(text, i + 1) ELSE i

\* the last index of the run of non-whitespace that starts at i
RECURSIVE EndOfToken(_, _)
EndOfToken(text, i) ==
  IF i + 1 <= Len(text) /\ ~IsSpace(text[i + 1]) THEN EndOfToken(text, i + 1) ELSE i

\* re.findall(r'Server:\s*([^\s\n]+)', text, re.IGNORECASE), scanning from i
RECURSIVE FindAll(_, _)
FindAll(text, i) ==
  IF i > Len(text) THEN << >>
  ELSE IF IsMarker(text[i]) /\ SkipSpace(text, i + 1) <= Len(text)
  THEN LET from == SkipSpace(text, i + 1)
           to == EndOfToken(text, from)
       IN <<SubSeq(text, from, to)>> \o FindAll(text, to + 1)
  ELSE FindAll(text, i + 1)

Contains(seq, x) == \E i \in 1..Len(seq) : seq[i] = x

\* a list left as it is
NoDedup(seq) == seq

\* list(dict.fromkeys(seq))
RECURSIVE Dedup(_)
Dedup(seq) ==
  IF seq = << >> THEN << >>
  ELSE LET front == Dedup(SubSeq(seq, 1, Len(seq) - 1))
           x == seq[Len(seq)]
       IN IF Contains(front, x) THEN front ELSE Append(front, x)

\* [x.strip() for x in seq if x.strip()]
RECURSIVE StripAll(_)
StripAll(seq) ==
  IF seq = << >> THEN << >>
  ELSE IF Strip(Head(seq)) # << >>
  THEN <<Strip(Head(seq))>> \o StripAll(Tail(seq))
  ELSE StripAll(Tail(seq))

parse_ticket(file) ==
  IF ~file.exists THEN [hostnames |-> << >>, error |-> "Ticket file not found"]
  ELSE IF ~file.readable THEN [hostnames |-> << >>, error |-> "exception"]
  ELSE IF Strip(file.text) = << >> THEN [hostnames |-> << >>, error |-> NoError]
  ELSE [hostnames |-> Dedup(StripAll(FindAll(file.text, 1))), error |-> NoError]

MissingTicket == [exists |-> FALSE, readable |-> FALSE, text |-> << >>]
UnreadableTicket == [exists |-> TRUE, readable |-> FALSE, text |-> << >>]
TicketOf(text) == [exists |-> TRUE, readable |-> TRUE, text |-> text]

\* the ticket files a run may meet
TicketFiles ==
  { MissingTicket,
    UnreadableTicket,
    TicketOf(<<" ", "\n">>),
    TicketOf(<<"a", " ", "S", " ">>),
    TicketOf(<<"S", " ", "A">>),
    TicketOf(<<"s", "b", "\n", "S", " ", " ", "a", " ", "S", "b">>) }

(***************************************************************************)
(* Spec: callers of the two resolvers and of cache.clear(), a clock and    *)
(* the two CSV files changing under the program.                           *)
(*   last: the call made by the latest step, if that step was a call (its  *)
(*         key, flags, result, whether the CSV was read, and how it found  *)
(*         the cache entry of its key)                                     *)
(*   fill: per key, the latest call that read the source and ended in a    *)
(*         found or not-found result, with its time (forgotten on clear)   *)
(***************************************************************************)
NoCall == [op |-> "none"]

Idle == [pc |-> "idle"]

\* no pipeline is part of the run
NoPipeline ==
  /\ prog = "resolvers"
  /\ run = Idle
  /\ result = Absent
  /\ agg = Absent

Keys == {SgKey(h) : h \in HostArgs} \cup {AoKey(g) : g \in GroupArgs}

Settled(ret) == ret.error = NoError

\* how the call found the cache entry of its key: "absent", "fresh" or "stale"
EntryState(c, key, t) ==
  IF key \notin DOMAIN c THEN "absent"
  ELSE IF t - c[key].timestamp < TTL THEN "fresh" ELSE "stale"

NoteFill(f, key, r, t) ==
  IF r.read /\ Settled(r.ret) THEN [f EXCEPT ![key] = [ret |-> r.ret, time |-> t]] ELSE f

Init ==
  /\ now = 0
  /\ cache = << >>
  /\ assets \in AssetsFiles
  /\ distros \in DistrosFiles
  /\ enabled \in BOOLEAN
  /\ cfgOk \in BOOLEAN
  /\ last = NoCall
  /\ fill = [k \in Keys |-> Absent]
  /\ NoPipeline

\* datetime.now() moves on
Tick ==
  /\ now < MaxTime
  /\ now' = now + 1
  /\ last' = NoCall
  /\ UNCHANGED <<cache, assets, distros, enabled, cfgOk, fill>>
  /\ UNCHANGED pvars

\* somebody rewrites, removes or restores the assets CSV
ChangeAssets ==
  /\ assets' \in AssetsFiles \ {assets}
  /\ last' = NoCall
  /\ UNCHANGED <<now, cache, distros, enabled, cfgOk, fill>>
  /\ UNCHANGED pvars

\* somebody rewrites, removes or restores the email-distros CSV
ChangeDistros ==
  /\ distros' \in DistrosFiles \ {distros}
  /\ last' = NoCall
  /\ UNCHANGED <<now, cache, assets, enabled, cfgOk, fill>>
  /\ UNCHANGED pvars

\* --lookup, or any caller of get_support_group
LookupHost(hostname, use_cache) ==
  LET r == get_support_group(hostname, use_cache, cache, now, assets, enabled, cfgOk)
  IN /\ cache' = r.cache
     /\ last' = [op |-> "get_support_group", key |-> SgKey(hostname), use_cache |-> use_cache,
                 ret |-> r.ret, read |-> r.read, was |-> EntryState(cache, SgKey(hostname), now)]
     /\ fill' = NoteFill(fill, SgKey(hostname), r, now)
     /\ UNCHANGED <<now, assets, distros, enabled, cfgOk>>
     /\ UNCHANGED pvars

\* --contacts, or any caller of get_app_owners
LookupGroup(group, use_cache) ==
  LET r == get_app_owners(group, use_cache, cache, now, distros, enabled, cfgOk)
  IN /\ cache' = r.cache
     /\ last' = [op |-> "get_app_owners", key |-> AoKey(group), use_cache |-> use_cache,
                 ret |-> r.ret, read |-> r.read, was |-> EntryState(cache, AoKey(group), now)]
     /\ fill' = NoteFill(fill, AoKey(group), r, now)
     /\ UNCHANGED <<now, assets, distros, enabled, cfgOk>>
     /\ UNCHANGED pvars

\* --clear-cache; last notes the store the call found
ClearCache ==
  /\ cache' = CacheClear(cache)
  /\ last' = [op |-> "clear", before |-> cache]
  /\ fill' = [k \in Keys |-> Absent]
  /\ UNCHANGED <<now, assets, distros, enabled, cfgOk>>
  /\ UNCHANGED pvars

Next ==
  \/ Tick
  \/ ChangeAssets
  \/ ChangeDistros
  \/ \E h \in HostArgs, u \in BOOLEAN : LookupHost(h, u)
  \/ \E g \in GroupArgs, u \in BOOLEAN : LookupGroup(g, u)
  \/ ClearCache

Spec == Init /\ [][Next]_vars

(***************************************************************************)
(* Properties of the resolvers (Spec)                                      *)
(***************************************************************************)
IsCall(l) == l.op \in {"get_support_group", "get_app_owners"}

\* what the source answers for a key right now, the cache left aside
FreshAnswer(key, a, d, cfg) ==
  IF key[1] = "support_group"
  THEN QuerySupportGroup(key[2], << >>, 0, a, FALSE, cfg).ret
  ELSE QueryAppOwners(key[2], << >>, 0, d, FALSE, cfg).ret

\* what a default call for the key would do in the given state
DefaultCall(key, c, t, a, d, on, cfg) ==
  IF key[1] = "support_group"
  THEN get_support_group(key[2], TRUE, c, t, a, on, cfg)
  ELSE get_app_owners(key[2], TRUE, c, t, d, on, cfg)

\* C1: with caching enabled, once a call for a key has read the source and
\* ended in a found or not-found result, every cache-using call for the same
\* key made less than TTL later (no clear in between) returns the identical
\* result and does not read the source, whatever the source holds by then.
C1_RepeatWithinTtlServedFromCache ==
  [][(/\ IsCall(last')
      /\ enabled
      /\ last'.use_cache
      /\ fill[last'.key] # Absent
      /\ now - fill[last'.key].time < TTL)
     => (/\ last'.ret = fill[last'.key].ret
         /\ ~last'.read)]_vars

\* a call served from the cache although the source has a different answer now
C1_Witness ==
  /\ IsCall(last)
  /\ enabled /\ cfgOk
  /\ last.use_cache
  /\ ~last.read
  /\ fill[last.key] # Absent
  /\ fill[last.key].time < now
  /\ last.ret = fill[last.key].ret
  /\ Settled(FreshAnswer(last.key, assets, distros, cfgOk))
  /\ FreshAnswer(last.key, assets, distros, cfgOk) # last.ret

C26_BypassRefreshesEntry ==
  [][(IsCall(last') /\ enabled /\ ~last'.use_cache)
     => (/\ last'.read = cfgOk
         /\ last'.ret = FreshAnswer(last'.key, assets, distros, cfgOk)
         /\ Settled(last'.ret) =>
              /\ last'.key \in DOMAIN cache'
              /\ cache'[last'.key] = [value |-> last'.ret, timestamp |-> now]
              /\ fill'[last'.key] = [ret |-> last'.ret, time |-> now]
              /\ \A t \in now..MaxTime :
                   t - now < TTL =>
                     LET later == DefaultCall(last'.key, cache', t, assets', distros',
                                              enabled', cfgOk')
                     IN later.ret = last'.ret /\ ~later.read)]_vars

\* a use_cache=False call has found a fresh entry under its key, read the
\* source all the same and stored the result with the time of the call
C26_Witness ==
  /\ IsCall(last)
  /\ enabled
  /\ ~last.use_cache
  /\ last.was = "fresh"
  /\ last.read
  /\ Settled(last.ret)
  /\ now > 0
  /\ cache[last.key] = [value |-> last.ret, timestamp |-> now]

\* C28: bounded staleness: with caching enabled, every found or not-found
\* result a resolver returns at time t is the answer the source gave for the
\* key at some time in (t - TTL, t]: either the call read the source itself,
\* or it returns the result of the latest call that read the source for the
\* key, made less than TTL before and not followed by a clear.
C28_BoundedStaleness ==
  [][/\ (IsCall(last') /\ enabled /\ Settled(last'.ret)) =>
          IF last'.read
          THEN /\ last'.ret = FreshAnswer(last'.key, assets, distros, cfgOk)
               /\ fill'[last'.key] = [ret |-> last'.ret, time |-> now]
          ELSE /\ fill[last'.key] # Absent
               /\ last'.ret = fill[last'.key].ret
               /\ now - fill[last'.key].time < TTL
               /\ fill'[last'.key] = fill[last'.key]
     /\ (~IsCall(last') /\ last'.op # "clear") => fill' = fill]_vars

\* a call served from the cache with a result read TTL - 1 before, the source
\* having another answer for the key by now
C28_Witness ==
  /\ IsCall(last)
  /\ enabled /\ cfgOk
  /\ ~last.read
  /\ Settled(last.ret)
  /\ fill[last.key] # Absent
  /\ now - fill[last.key].time = TTL - 1
  /\ Settled(FreshAnswer(last.key, assets, distros, cfgOk))
  /\ FreshAnswer(last.key, assets, distros, cfgOk) # last.ret

\* C21: SimpleCache.clear discards all entries unconditionally: after clear
\* the store is empty, so get returns None for every key, whatever the age of
\* the discarded entries, and the next resolver call for any key goes to the
\* source and returns its answer; a key has no entry again until a call
\* stores a result for it.
C21_ClearDiscardsEverything ==
  [][/\ (last'.op = "clear") =>
          /\ cache' = << >>
          /\ \A k \in Keys :
                /\ CacheGet(cache', k, now').value = Absent
                /\ LET next == DefaultCall(k, cache', now', assets', distros', enabled', cfgOk')
                   IN /\ next.read = cfgOk'
                      /\ next.ret = FreshAnswer(k, assets', distros', cfgOk')
     /\ \A k \in Keys : fill'[k] = Absent => k \notin DOMAIN cache'
     /\ (IsCall(last') /\ fill[last'.key] = Absent) =>
          /\ last'.read = cfgOk
          /\ last'.ret = FreshAnswer(last'.key, assets, distros, cfgOk)]_vars

\* a clear has just discarded a fresh entry and a stale one, and the source
\* would now answer for the fresh one's key something else than it held
C21_Witness ==
  /\ last.op = "clear"
  /\ cache = << >>
  /\ enabled /\ cfgOk
  /\ \E k \in DOMAIN last.before :
       /\ now - last.before[k].timestamp < TTL
       /\ Settled(FreshAnswer(k, assets, distros, cfgOk))
       /\ FreshAnswer(k, assets, distros, cfgOk) # last.before[k].value
  /\ \E k \in DOMAIN last.before : now - last.before[k].timestamp >= TTL

(***************************************************************************)
(* SpecCache: callers of SimpleCache.get, set and clear, and the clock.    *)
(*   last: the call made by the latest step; for a get, the returned value *)
(*         (Absent for None) and the entry the dict held before the call   *)
(*   fill: per key, the latest set since the last clear: its value, its    *)
(*         time and the entry it replaced                                  *)
(***************************************************************************)
ApiKeys == {SgKey(HostA), AoKey(GroupX)}
ApiValues == {SgResult(HostA, GroupX, TRUE, NoError), SgResult(HostA, None, FALSE, NoError)}

InitCache ==
  /\ now = 0
  /\ cache = << >>
  /\ assets = MissingFile
  /\ distros = MissingFile
  /\ enabled = TRUE
  /\ cfgOk = TRUE
  /\ last = NoCall
  /\ fill = [k \in Keys |-> Absent]
  /\ NoPipeline

ApiGet(key) ==
  LET got == CacheGet(cache, key, now)
  IN /\ cache' = got.cache
     /\ last' = [op |-> "get", key |-> key, ret |-> got.value,
                 before |-> IF key \in DOMAIN cache THEN cache[key] ELSE Absent]
     /\ UNCHANGED <<now, assets, distros, enabled, cfgOk, fill>>
     /\ UNCHANGED pvars

\* fill[key] notes the call: its value, its time, and the entry it found
ApiSet(key, value) ==
  /\ cache' = CacheSet(cache, key, value, now)
  /\ last' = [op |-> "set", key |-> key, value |-> value]
  /\ fill' = [fill EXCEPT ![key] = [value |-> value, time |-> now,
                                    before |-> IF key \in DOMAIN cache THEN cache[key]
                                               ELSE Absent]]
  /\ UNCHANGED <<now, assets, distros, enabled, cfgOk>>
  /\ UNCHANGED pvars

ApiClear ==
  /\ cache' = CacheClear(cache)
  /\ last' = [op |-> "clear"]
  /\ fill' = [k \in Keys |-> Absent]
  /\ UNCHANGED <<now, assets, distros, enabled, cfgOk>>
  /\ UNCHANGED pvars

NextCache ==
  \/ Tick
  \/ \E k \in ApiKeys : ApiGet(k)
  \/ \E k \in ApiKeys, v \in ApiValues : ApiSet(k, v)
  \/ ApiClear

SpecCache == InitCache /\ [][NextCache]_vars

\* C4: SimpleCache.get(key) returns the stored value exactly when the dict
\* holds an entry for the key with now - timestamp < TTL, and then changes
\* nothing; otherwise it returns None, and an entry that was there (of age
\* TTL or more) is no longer in the dict after the call, all other entries
\* being kept.
C4_GetReturnsFreshEntryOnly ==
  [][(last'.op = "get")
     => LET k == last'.key
            live == k \in DOMAIN cache /\ now - cache[k].timestamp < TTL
        IN /\ live => (last'.ret = cache[k].value /\ cache' = cache)
           /\ ~live => (/\ last'.ret = Absent
                        /\ k \notin DOMAIN cache'
                        /\ DOMAIN cache' = DOMAIN cache \ {k}
                        /\ \A j \in DOMAIN cache' : cache'[j] = cache[j])]_vars

\* a get has just found an entry of age exactly TTL, returned None and removed it
C4_Witness ==
  /\ last.op = "get"
  /\ last.before # Absent
  /\ now - last.before.timestamp = TTL
  /\ last.ret = Absent
  /\ last.key \notin DOMAIN cache
  /\ cache # << >>

\* C20: SimpleCache.set(key, value) always overwrites: whatever entry (fresh,
\* stale or none) the key had before, after a set at time t every get(key)
\* with no set of the key and no clear in between returns the new value while
\* now - t < TTL, and None from then on: the age is counted from t.
C20_SetOverwritesAndRestartsAge ==
  [][(last'.op = "get" /\ fill[last'.key] # Absent)
     => LET noted == fill[last'.key]
        IN IF now - noted.time < TTL
           THEN last'.ret = noted.value
           ELSE last'.ret = Absent]_vars

\* a set has replaced a stale entry holding another value, and a later get,
\* made when the new entry is younger than TTL, has returned the new value
C20_Witness ==
  /\ last.op = "get"
  /\ fill[last.key] # Absent
  /\ fill[last.key].before # Absent
  /\ fill[last.key].before.value # fill[last.key].value
  /\ fill[last.key].time - fill[last.key].before.timestamp >= TTL
  /\ now > fill[last.key].time
  /\ last.ret = fill[last.key].value

\* C27: a cache read never extends an entry's life and never touches other
\* keys: get(k) on a fresh entry leaves the whole store, timestamps included,
\* as it was; get(k) on a stale entry removes the entry of k and nothing else;
\* and an entry, however old, stays in the store unchanged through every step
\* that is not a get of its own key finding it stale, a set of its key or a
\* clear (the passing of time removes nothing).
C27_ReadTouchesOnlyItsStaleEntry ==
  [][/\ (last'.op = "get") =>
          LET k == last'.key
          IN IF k \in DOMAIN cache /\ now - cache[k].timestamp >= TTL
             THEN cache' = [j \in DOMAIN cache \ {k} |-> cache[j]]
             ELSE cache' = cache
     /\ \A j \in DOMAIN cache :
          \/ j \in DOMAIN cache' /\ cache'[j] = cache[j]
          \/ last'.op = "clear"
          \/ last'.op = "set" /\ last'.key = j
          \/ last'.op = "get" /\ last'.key = j /\ now - cache[j].timestamp >= TTL]_vars

\* a get has just removed the stale entry of its key while the entry of
\* another key, stale as well, is still in the store
C27_Witness ==
  /\ last.op = "get"
  /\ last.before # Absent
  /\ now - last.before.timestamp >= TTL
  /\ last.key \notin DOMAIN cache
  /\ \E j \in DOMAIN cache : now - cache[j].timestamp > TTL

(***************************************************************************)
(* process_tickets of refactor.py.  The first loop (glob and parse) and    *)
(* the hostname deduplication are one step; the resolution loop is one     *)
(* step per hostname, the last one also building the result, so that the   *)
(* clock and the CSV files may change between two lookups.                 *)
(*   run: the locals of the call; sg_calls and ao_calls log the arguments  *)
(*        of the get_support_group and get_app_owners calls it has made    *)
(***************************************************************************)
Paths == {"t1", "t2"}
Patterns == Paths \cup {"*"}

\* glob.glob(pattern) over the ticket files fs
Glob(pattern, fs) ==
  IF pattern = "*"
  THEN SelectSeq(<<"t1", "t2">>, LAMBDA f : fs[f].exists)
  ELSE IF fs[pattern].exists THEN <<pattern>> ELSE << >>

\* files of the outer loop, for each pattern of file_patterns
FilesPerInput(file_patterns, is_batch, fs) ==
  [i \in 1..Len(file_patterns) |->
     IF is_batch THEN Glob(file_patterns[i], fs) ELSE <<file_patterns[i]>>]

\* the files visited by the two nested loops, in order
RECURSIVE FilesOf(_, _, _)
FilesOf(file_patterns, is_batch, fs) ==
  IF file_patterns = << >> THEN << >>
  ELSE (IF is_batch THEN Glob(Head(file_patterns), fs) ELSE <<Head(file_patterns)>>)
       \o FilesOf(Tail(file_patterns), is_batch, fs)

\* a loop over the files that ends at the first file with an error
RECURSIVE CollectStopAtError(_, _)
CollectStopAtError(files, fs) ==
  IF files = << >>
  THEN [all_hostnames |-> << >>, processed_files |-> << >>, file_errors |-> << >>,
        parsed |-> << >>]
  ELSE LET front == CollectStopAtError(SubSeq(files, 1, Len(files) - 1), fs)
           file_path == files[Len(files)]
           parse_result == parse_ticket(fs[file_path])
       IN IF front.file_errors # << >> THEN front
          ELSE [all_hostnames |-> front.all_hostnames \o parse_result.hostnames,
                processed_files |-> Append(front.processed_files, file_path),
                file_errors |-> IF parse_result.error # NoError
                                THEN <<<<file_path, parse_result.error>>>>
                                ELSE << >>,
                parsed |-> Append(front.parsed, parse_result)]

\* the body of the inner loop over all files: all_hostnames, processed_files,
\* file_errors, and parsed, the parse_result of each file visited
RECURSIVE Collect(_, _)
Collect(files, fs) ==
  IF files = << >>
  THEN [all_hostnames |-> << >>, processed_files |-> << >>, file_errors |-> << >>,
        parsed |-> << >>]
  ELSE LET front == Collect(SubSeq(files, 1, Len(files) - 1), fs)
           file_path == files[Len(files)]
           parse_result == parse_ticket(fs[file_path])
       IN [all_hostnames |-> front.all_hostnames \o parse_result.hostnames,
           processed_files |-> Append(front.processed_files, file_path),
           file_errors |-> IF parse_result.error # NoError
                           THEN Append(front.file_errors, <<file_path, parse_result.error>>)
                           ELSE front.file_errors,
           parsed |-> Append(front.parsed, parse_result)]

\* the "no hostnames found" result
EmptyResult(is_batch, processed_files, file_errors) ==
  IF is_batch
  THEN [status |-> "success", message |-> "No hostnames found in tickets", results |-> << >>,
        errors |-> [hostnames_not_found |-> << >>, file_errors |-> file_errors],
        files_processed |-> processed_files]
  ELSE [status |-> "success", message |-> "No hostnames found in ticket", results |-> << >>,
        errors |-> IF file_errors # << >>
                   THEN [text |-> file_errors[1][2]]
                   ELSE [hostnames_not_found |-> << >>]]

\* the result built after the resolution loop
FullResult(is_batch, unique_hostnames, groups, not_found, processed_files, file_errors) ==
  IF is_batch
  THEN [status |-> "success",
        summary |-> [total_hostnames |-> Len(unique_hostnames), grouped_into |-> Len(groups),
                     not_found |-> Len(not_found), files_processed |-> Len(processed_files)],
        results |-> groups,
        errors |-> [hostnames_not_found |-> not_found, file_errors |-> file_errors],
        files_processed |-> processed_files]
  ELSE [status |-> "success",
        summary |-> [total_hostnames |-> Len(unique_hostnames), grouped_into |-> Len(groups),
                     not_found |-> Len(not_found)],
        results |-> groups,
        errors |-> [hostnames_not_found |-> not_found]]

\* support_group in groups
HasGroup(groups, name) == \E i \in 1..Len(groups) : groups[i].support_group_name = name

\* groups[name]["hostnames"].append(hostname)
AddHostname(groups, name, hostname) ==
  [i \in 1..Len(groups) |->
     IF groups[i].support_group_name = name
     THEN [groups[i] EXCEPT !.hostnames = Append(@, hostname)]
     ELSE groups[i]]

\* a new group put in front of the groups already there
NewGroupInFront(groups, name, owner_info) ==
  <<[support_group_name |-> name,
     hostnames |-> << >>,
     contacts |-> IF owner_info.found THEN owner_info.contacts ELSE NoContacts,
     contact_lookup_successful |-> owner_info.found]>> \o groups

\* groups[support_group] = {...} on the first hostname of a group
NewGroup(groups, name, owner_info) ==
  Append(groups, [support_group_name |-> name,
                  hostnames |-> << >>,
                  contacts |-> IF owner_info.found THEN owner_info.contacts ELSE NoContacts,
                  contact_lookup_successful |-> owner_info.found])

\* process_tickets without the deduplication of lines 217-221
ProcessStartNoDedup(file_inputs, is_batch, fs) ==
  LET files == FilesOf(file_inputs, is_batch, fs)
      col == Collect(files, fs)
      unique_hostnames == col.all_hostnames
  IN /\ prog = "refactor"
     /\ run.pc = "idle"
     /\ IF unique_hostnames = << >>
        THEN /\ run' = [pc |-> "done", is_batch |-> is_batch, all_hostnames |-> col.all_hostnames,
                        unique_hostnames |-> unique_hostnames, todo |-> << >>,
                        groups |-> << >>, not_found |-> << >>,
                        processed_files |-> col.processed_files, file_errors |-> col.file_errors,
                        files |-> files, parsed |-> col.parsed,
                        file_inputs |-> file_inputs,
                        expanded |-> FilesPerInput(file_inputs, is_batch, fs),
                        sg_calls |-> << >>, ao_calls |-> << >>]
             /\ result' = EmptyResult(is_batch, col.processed_files, col.file_errors)
        ELSE /\ run' = [pc |-> "resolve", is_batch |-> is_batch, all_hostnames |-> col.all_hostnames,
                        unique_hostnames |-> unique_hostnames, todo |-> unique_hostnames,
                        groups |-> << >>, not_found |-> << >>,
                        processed_files |-> col.processed_files, file_errors |-> col.file_errors,
                        files |-> files, parsed |-> col.parsed,
                        file_inputs |-> file_inputs,
                        expanded |-> FilesPerInput(file_inputs, is_batch, fs),
                        sg_calls |-> << >>, ao_calls |-> << >>]
             /\ result' = Absent
     /\ UNCHANGED <<cvars, prog, agg>>

\* process_tickets up to the resolution loop
ProcessStart(file_inputs, is_batch, fs) ==
  LET files == FilesOf(file_inputs, is_batch, fs)
      col == Collect(files, fs)
      unique_hostnames == IF is_batch THEN Dedup(col.all_hostnames) ELSE col.all_hostnames
  IN /\ prog = "refactor"
     /\ run.pc = "idle"
     /\ IF unique_hostnames = << >>
        THEN /\ run' = [pc |-> "done", is_batch |-> is_batch, all_hostnames |-> col.all_hostnames,
                        unique_hostnames |-> unique_hostnames, todo |-> << >>,
                        groups |-> << >>, not_found |-> << >>,
                        processed_files |-> col.processed_files, file_errors |-> col.file_errors,
                        files |-> files, parsed |-> col.parsed,
                        file_inputs |-> file_inputs,
                        expanded |-> FilesPerInput(file_inputs, is_batch, fs),
                        sg_calls |-> << >>, ao_calls |-> << >>]
             /\ result' = EmptyResult(is_batch, col.processed_files, col.file_errors)
        ELSE /\ run' = [pc |-> "resolve", is_batch |-> is_batch, all_hostnames |-> col.all_hostnames,
                        unique_hostnames |-> unique_hostnames, todo |-> unique_hostnames,
                        groups |-> << >>, not_found |-> << >>,
                        processed_files |-> col.processed_files, file_errors |-> col.file_errors,
                        files |-> files, parsed |-> col.parsed,
                        file_inputs |-> file_inputs,
                        expanded |-> FilesPerInput(file_inputs, is_batch, fs),
                        sg_calls |-> << >>, ao_calls |-> << >>]
             /\ result' = Absent
     /\ UNCHANGED <<cvars, prog, agg>>

\* one round of the resolution loop; after the last hostname, the result
ProcessStep ==
  /\ prog = "refactor"
  /\ run.pc = "resolve"
  /\ LET hostname == Head(run.todo)
         support_info == get_support_group(hostname, TRUE, cache, now, assets, enabled, cfgOk)
         support_group == support_info.ret.support_group
         first == ~HasGroup(run.groups, support_group)
         owner_info == get_app_owners(support_group, TRUE, support_info.cache, now, distros,
                                      enabled, cfgOk)
         groups == IF ~support_info.ret.found THEN run.groups
                   ELSE AddHostname(IF first THEN NewGroup(run.groups, support_group, owner_info.ret)
                                             ELSE run.groups,
                                    support_group, hostname)
         not_found == IF support_info.ret.found THEN run.not_found
                      ELSE Append(run.not_found, hostname)
         left == Tail(run.todo)
     IN /\ cache' = IF support_info.ret.found /\ first THEN owner_info.cache ELSE support_info.cache
        /\ run' = [run EXCEPT !.pc = IF left = << >> THEN "done" ELSE "resolve",
                              !.todo = left,
                              !.groups = groups,
                              !.not_found = not_found,
                              !.sg_calls = Append(@, hostname),
                              !.ao_calls = IF support_info.ret.found /\ first
                                           THEN Append(@, support_group) ELSE @]
        /\ result' = IF left = << >>
                     THEN FullResult(run.is_batch, run.unique_hostnames, groups, not_found,
                                     run.processed_files, run.file_errors)
                     ELSE Absent
  /\ UNCHANGED <<now, assets, distros, enabled, cfgOk, last, fill, prog, agg>>

InitProcess ==
  /\ now = 0
  /\ cache = << >>
  /\ assets \in AssetsFiles
  /\ distros \in DistrosFiles
  /\ enabled = TRUE
  /\ cfgOk = TRUE
  /\ last = NoCall
  /\ fill = [k \in Keys |-> Absent]
  /\ prog = "refactor"
  /\ run = Idle
  /\ result = Absent
  /\ agg = Absent

\* --ticket FILE
TicketRun == \E f \in Paths, fs \in [Paths -> TicketFiles] : ProcessStart(<<f>>, FALSE, fs)

\* --batch PATTERN [PATTERN]
BatchRun ==
  \E p1 \in Patterns, p2 \in Patterns, n \in 1..2, fs \in [Paths -> TicketFiles] :
    ProcessStart(SubSeq(<<p1, p2>>, 1, n), TRUE, fs)

NextProcess ==
  \/ TicketRun
  \/ BatchRun
  \/ ProcessStep
  \/ ChangeAssets
  \/ ChangeDistros

SpecProcess == InitProcess /\ [][NextProcess]_vars

(***************************************************************************)
(* Properties of process_tickets (SpecProcess)                             *)
(***************************************************************************)
Range(seq) == {seq[i] : i \in 1..Len(seq)}

\* how often x occurs in seq
Count(seq, x) == Cardinality({i \in 1..Len(seq) : seq[i] = x})

\* C5: in a batch run a hostname mentioned in several ticket files is counted
\* once in total_hostnames and get_support_group is called for it exactly
\* once: the list the resolution loop starts from holds every hostname of the
\* files once, the loop never asks twice for a hostname, and at the end of the
\* run every hostname of the files has been asked for once and
\* total_hostnames is the number of distinct hostnames.
C5_BatchHostnameResolvedOnce ==
  (prog = "refactor" /\ run.pc \in {"resolve", "done"} /\ run.is_batch) =>
     /\ \A h \in Range(run.all_hostnames) :
          /\ Count(run.unique_hostnames, h) = 1
          /\ Count(run.sg_calls, h) <= 1
          /\ run.pc = "done" => Count(run.sg_calls, h) = 1
     /\ (run.pc = "done" /\ run.all_hostnames # << >>) =>
          result.summary.total_hostnames = Cardinality(Range(run.all_hostnames))

\* a finished batch over two files that both mention a hostname
C5_Witness ==
  /\ prog = "refactor"
  /\ run.pc = "done"
  /\ run.is_batch
  /\ Len(run.processed_files) = 2
  /\ run.processed_files[1] # run.processed_files[2]
  /\ \E h \in Range(run.all_hostnames) :
       /\ Count(run.all_hostnames, h) = 2
       /\ Count(run.sg_calls, h) = 1
  /\ result.summary.total_hostnames = 2
  /\ Len(run.all_hostnames) = 4

\* the result carries a summary whose counts are all zero
ZeroCounts(r) ==
  /\ "summary" \in DOMAIN r
  /\ \A f \in DOMAIN r.summary : r.summary[f] = 0

\* the errors section of the result holds a list with an error in it, other
\* than the list of the hostnames not found
ErrorRecorded(r) ==
  /\ "errors" \in DOMAIN r
  /\ \E f \in DOMAIN r.errors \cap {"other_errors", "file_errors"} : r.errors[f] # << >>

\* C9: when the extractor signals an error for a ticket, the pipeline returns a
\* result with zero counts and with the error recorded in a list of the errors
\* section, and has made no support-group and no contact lookup. Stated for
\* process_tickets on a single ticket (--ticket) whose parse_ticket gave an
\* "error" entry.
C9_ExtractorErrorShortCircuits ==
  (prog = "refactor" /\ run.pc = "done" /\ ~run.is_batch /\ run.file_errors # << >>) =>
     /\ ZeroCounts(result)
     /\ ErrorRecorded(result)
     /\ run.sg_calls = << >>
     /\ run.ao_calls = << >>

\* C11: when a hostname resolves to a support group but the contact lookup for
\* that group does not succeed, the support group is recorded under
\* errors.support_groups_not_found, and the group entry exists with empty
\* contacts and with the hostname in its hostname list. Stated for the result
\* of process_tickets, where a group's contact lookup is the one made when the
\* group is created and contact_lookup_successful tells how it ended.
C11_ContactFailureRecordedGroupKept ==
  (prog = "refactor" /\ run.pc = "done" /\ run.unique_hostnames # << >>) =>
    \A i \in 1..Len(result.results) :
      (~result.results[i].contact_lookup_successful
       /\ result.results[i].support_group_name # None) =>
        /\ result.results[i].contacts = NoContacts
        /\ result.results[i].hostnames # << >>
        /\ "support_groups_not_found" \in DOMAIN result.errors
        /\ Contains(result.errors.support_groups_not_found,
                    result.results[i].support_group_name)

(***************************************************************************)
(* main.py: the two Google Sheet lookups (no cache), the external          *)
(* extractor, collate_ticket_results and the --batch loop.                 *)
(* A sheet is [exists, rows]: exists = FALSE stands for any failure of the *)
(* credentials or of the API; rows are get_all_values(), cells are         *)
(* strings, << >> the empty one.                                           *)
(***************************************************************************)
Empty == << >>

\* Sheet1: support group in column A, hostname in column C
HostSheets ==
  { MissingFile,
    [exists |-> TRUE, rows |-> << <<GroupY, Empty, HostA>>, <<GroupX, Empty, HostA>>,
                                  <<GroupY, Empty, HostA>>, <<GroupX, Empty, HostB>> >>],
    [exists |-> TRUE, rows |-> << <<GroupX, Empty, HostA>>, <<GroupX, HostA>>,
                                  <<GroupY, Empty, <<" ", "A">>>> >>] }

\* the second sheet: support group, email distros, individual contacts
OwnerSheets ==
  { MissingFile,
    [exists |-> TRUE, rows |-> << <<GroupX, MailY, MailY>>, <<GroupX, MailX, MailY>>,
                                  <<GroupX, MailY>> >>] }

\* all_values[1:]
SheetData(sheet) == IF sheet.rows = << >> THEN << >> ELSE Tail(sheet.rows)

\* the rows the scan of get_support_group (main.py) accepts
MainHostRows(data, hostname) ==
  {i \in 1..Len(data) : /\ Len(data[i]) > 2
                        /\ StrUpper(Strip(data[i][3])) = StrUpper(Strip(hostname))}

\* get_support_group of main.py
main_get_support_group(hostname, sheet) ==
  LET data == SheetData(sheet)
      rows == MainHostRows(data, hostname)
  IN IF ~sheet.exists THEN SgResult(hostname, None, FALSE, "exception")
     ELSE IF rows # {} THEN SgResult(hostname, data[FirstRow(rows)][1], TRUE, NoError)
     ELSE SgResult(hostname, None, FALSE, NoError)

MainOwnerRows(data, group) ==
  {i \in 1..Len(data) : /\ Len(data[i]) > 0
                        /\ StrUpper(Strip(data[i][1])) = StrUpper(Strip(group))}

Cell(row, i) == IF Len(row) >= i THEN row[i] ELSE None

\* get_app_owners of main.py
main_get_app_owners(group, sheet) ==
  LET data == SheetData(sheet)
      rows == MainOwnerRows(data, group)
      row == data[FirstRow(rows)]
  IN IF ~sheet.exists
     THEN [support_group |-> group, app_owners |-> None, email_distros |-> None,
           individual_contacts |-> None, found |-> FALSE, error |-> "exception"]
     ELSE IF rows # {}
     THEN [support_group |-> group, app_owners |-> Cell(row, 1), email_distros |-> Cell(row, 2),
           individual_contacts |-> Cell(row, 3), found |-> TRUE, error |-> NoError]
     ELSE [support_group |-> group, app_owners |-> None, email_distros |-> None,
           individual_contacts |-> None, found |-> FALSE, error |-> NoError]

\* what parse_ticket of main.py may give for a ticket: an exception (the API
\* call or json.loads), {"error": ...} (no content), or the parsed JSON with
\* its hosts (absent, or a list of hostnames, "" for an entry without one)
\* and its issue_type
ExtractorOutputs ==
  { [kind |-> "raise"], [kind |-> "error"], [kind |-> "json", has_hosts |-> FALSE],
    [kind |-> "json", has_hosts |-> TRUE, hosts |-> << >>, issue_type |-> "reboot"],
    [kind |-> "json", has_hosts |-> TRUE, hosts |-> <<HostB>>, issue_type |-> "maintenance"],
    [kind |-> "json", has_hosts |-> TRUE, hosts |-> <<HostA, HostB>>, issue_type |-> "maintenance"],
    [kind |-> "json", has_hosts |-> TRUE, hosts |-> <<HostA, HostA>>, issue_type |-> "reboot"],
    [kind |-> "json", has_hosts |-> TRUE, hosts |-> <<Empty, HostUpA>>, issue_type |-> "reboot"] }

ZeroSummary ==
  [total_hostnames |-> 0, total_support_groups |-> 0, successful_lookups |-> 0, failed_lookups |-> 0]

NoErrors == [hostnames_not_found |-> << >>, support_groups_not_found |-> << >>, other_errors |-> << >>]

\* int(x) in place of int(round(x)): the percentage cut off
CoverageTruncated(successful, total) ==
  IF total > 0 THEN (100 * successful) \div total ELSE 0

\* int(round(x)) of the float successful / total * 100: round half to even
Coverage(successful, total) ==
  IF total > 0
  THEN LET q == (100 * successful) \div total
           r == (100 * successful) % total
       IN IF 2 * r < total THEN q
          ELSE IF 2 * r > total THEN q + 1
          ELSE IF q % 2 = 0 THEN q ELSE q + 1
  ELSE 0

RECURSIVE SumLen(_)
SumLen(groups) == IF groups = << >> THEN 0 ELSE Len(Head(groups).hostnames) + SumLen(Tail(groups))

MainHasGroup(groups, name) == \E i \in 1..Len(groups) : groups[i].support_group = name

\* dict.update / dict[key] = value on a hostname_details dict
Details(d, hostname, v) == [h \in DOMAIN d \cup {hostname} |-> IF h = hostname THEN v ELSE d[h]]

\* lines 256-281: the hostname joins its group, created on the group's first hostname
MainAddHost(groups, name, hostname, issue_type, app_owner_info) ==
  LET base == IF MainHasGroup(groups, name) THEN groups
              ELSE Append(groups, [support_group |-> name, hostnames |-> << >>,
                                   email_distros |-> app_owner_info.email_distros,
                                   individual_contacts |-> app_owner_info.individual_contacts,
                                   issue_types |-> << >>, hostname_details |-> << >>])
  IN [i \in 1..Len(base) |->
        IF base[i].support_group = name
        THEN [base[i] EXCEPT
                !.hostnames = Append(@, hostname),
                !.issue_types = IF Contains(@, issue_type) THEN @ ELSE Append(@, issue_type),
                !.hostname_details = Details(@, hostname, [support_group_found |-> TRUE,
                                                           app_owners_found |-> app_owner_info.found])]
        ELSE base[i]]

\* lines 283-300
CollateResult(hosts, groups, errors) ==
  [summary |-> [total_hostnames |-> Len(hosts),
                total_support_groups |-> Len(groups),
                successful_lookups |-> SumLen(groups),
                failed_lookups |-> Len(errors.hostnames_not_found),
                coverage_percentage |-> Coverage(SumLen(groups), Len(hosts))],
   groups |-> groups,
   errors |-> errors]

RECURSIVE UnionTags(_, _)
UnionTags(mine, theirs) ==
  IF theirs = << >> THEN mine
  ELSE UnionTags(IF Contains(mine, Head(theirs)) THEN mine ELSE Append(mine, Head(theirs)),
                 Tail(theirs))

MergeDetails(d, e) == [h \in DOMAIN d \cup DOMAIN e |-> IF h \in DOMAIN e THEN e[h] ELSE d[h]]

\* a merge in which the later ticket's group replaces the contact fields
RECURSIVE MergeGroupsOverwriting(_, _)
MergeGroupsOverwriting(all_groups, groups) ==
  IF groups = << >> THEN all_groups
  ELSE LET group_data == Head(groups)
           name == group_data.support_group
           merged ==
             IF ~MainHasGroup(all_groups, name) THEN Append(all_groups, group_data)
             ELSE [i \in 1..Len(all_groups) |->
                     IF all_groups[i].support_group = name
                     THEN [all_groups[i] EXCEPT
                             !.email_distros = group_data.email_distros,
                             !.individual_contacts = group_data.individual_contacts,
                             !.hostnames = @ \o group_data.hostnames,
                             !.hostname_details = MergeDetails(@, group_data.hostname_details),
                             !.issue_types = UnionTags(@, group_data.issue_types)]
                     ELSE all_groups[i]]
       IN MergeGroupsOverwriting(merged, Tail(groups))

\* lines 429-439: one ticket's groups merged into all_groups
RECURSIVE MergeGroups(_, _)
MergeGroups(all_groups, groups) ==
  IF groups = << >> THEN all_groups
  ELSE LET group_data == Head(groups)
           name == group_data.support_group
           merged ==
             IF ~MainHasGroup(all_groups, name) THEN Append(all_groups, group_data)
             ELSE [i \in 1..Len(all_groups) |->
                     IF all_groups[i].support_group = name
                     THEN [all_groups[i] EXCEPT
                             !.hostnames = @ \o group_data.hostnames,
                             !.hostname_details = MergeDetails(@, group_data.hostname_details),
                             !.issue_types = UnionTags(@, group_data.issue_types)]
                     ELSE all_groups[i]]
       IN MergeGroups(merged, Tail(groups))

\* lines 424-444: one ticket_result merged into the aggregate
Merge(a, ticket_result) ==
  [all_groups |-> MergeGroups(a.all_groups, ticket_result.groups),
   all_errors |->
     [hostnames_not_found |-> a.all_errors.hostnames_not_found
                               \o ticket_result.errors.hostnames_not_found,
      support_groups_not_found |-> a.all_errors.support_groups_not_found
                                    \o ticket_result.errors.support_groups_not_found,
      other_errors |-> a.all_errors.other_errors \o ticket_result.errors.other_errors],
   total_summary |->
     [a.total_summary EXCEPT
        !.total_hostnames = @ + ticket_result.summary.total_hostnames,
        !.successful_lookups = @ + ticket_result.summary.successful_lookups,
        !.failed_lookups = @ + ticket_result.summary.failed_lookups],
   final |-> FALSE]

\* lines 452-454, once the last ticket is done
Finalize(a, left) ==
  IF left > 0 THEN a
  ELSE [a EXCEPT !.total_summary =
          [total_hostnames |-> @.total_hostnames,
           total_support_groups |-> Len(a.all_groups),
           successful_lookups |-> @.successful_lookups,
           failed_lookups |-> @.failed_lookups,
           coverage_percentage |-> Coverage(@.successful_lookups, @.total_hostnames)],
        !.final = TRUE]

\* an except clause that swallows the failure
FailedTicketSilent(a) == a

\* the except clause of the --batch loop
FailedTicket(a) ==
  [a EXCEPT !.all_errors.other_errors = Append(@, "Failed to process")]

\* the bound on the ticket files of one --batch run
MaxTickets == 2

NewAggregate ==
  [all_groups |-> << >>, all_errors |-> NoErrors, total_summary |-> ZeroSummary, final |-> FALSE]

\* the state of the --batch loop once a ticket is over: parsed is what the
\* extractor gave for it, sg_calls and ao_calls the lookups made for it
AfterTicket(r, parsed, sg_calls, ao_calls) ==
  [pc |-> IF r.mode = "batch" /\ r.left > 1 THEN "ticket" ELSE "done",
   mode |-> r.mode, left |-> r.left - 1,
   parsed |-> parsed, sg_calls |-> sg_calls, ao_calls |-> ao_calls]

\* --collate FILE, or --batch with n ticket files: nothing processed yet
MainBegin(mode, n) ==
  /\ prog = "main"
  /\ run.pc = "idle"
  /\ run' = [pc |-> "ticket", mode |-> mode, left |-> n,
             parsed |-> [kind |-> "none"], sg_calls |-> << >>, ao_calls |-> << >>]
  /\ agg' = IF mode = "batch" THEN NewAggregate ELSE Absent
  /\ UNCHANGED <<cvars, prog, result>>

\* --batch: open() or read() of the ticket file raises
TicketUnreadable ==
  /\ prog = "main"
  /\ run.pc = "ticket"
  /\ run.mode = "batch"
  /\ run' = AfterTicket(run, [kind |-> "unreadable"], << >>, << >>)
  /\ agg' = Finalize(FailedTicket(agg), run.left - 1)
  /\ result' = Absent
  /\ UNCHANGED <<cvars, prog>>

\* collate_ticket_results up to the hostname loop, for what parse_ticket gave;
\* an exception of parse_ticket ends --collate and is caught by --batch
TicketBegin(out) ==
  /\ prog = "main"
  /\ run.pc = "ticket"
  /\ IF out.kind = "raise"
     THEN /\ run' = AfterTicket(run, out, << >>, << >>)
          /\ result' = Absent
          /\ agg' = IF run.mode = "batch" THEN Finalize(FailedTicket(agg), run.left - 1) ELSE agg
     ELSE IF out.kind = "error" \/ ~out.has_hosts \/ out.hosts = << >>
     THEN LET ticket_result ==
                [summary |-> ZeroSummary,
                 groups |-> << >>,
                 errors |-> [NoErrors EXCEPT !.other_errors =
                               IF out.kind = "error" THEN <<"Ticket parsing failed">>
                               ELSE <<"No hostnames found in ticket">>]]
          IN /\ run' = AfterTicket(run, out, << >>, << >>)
             /\ result' = ticket_result
             /\ agg' = IF run.mode = "batch"
                       THEN Finalize(Merge(agg, ticket_result), run.left - 1) ELSE agg
     ELSE /\ run' = [pc |-> "loop", mode |-> run.mode, left |-> run.left, parsed |-> out,
                     todo |-> out.hosts, groups |-> << >>, errors |-> NoErrors,
                     sg_calls |-> << >>, ao_calls |-> << >>]
          /\ result' = Absent
          /\ agg' = agg
  /\ UNCHANGED <<cvars, prog>>

\* one round of the loop of collate_ticket_results; after the last host the
\* summary, and in a batch the merge into the aggregate
CollateStep ==
  /\ prog = "main"
  /\ run.pc = "loop"
  /\ LET hostname == Head(run.todo)
         left == Tail(run.todo)
         support_info == main_get_support_group(hostname, assets)
         support_group == support_info.support_group
         app_owner_info == main_get_app_owners(support_group, distros)
         skipped == hostname = Empty
         found == ~skipped /\ support_info.found
         errors1 == IF skipped \/ found THEN run.errors
                    ELSE [run.errors EXCEPT
                            !.hostnames_not_found = Append(@, hostname),
                            !.other_errors = IF support_info.error # NoError
                                             THEN Append(@, "Error looking up hostname") ELSE @]
         errors == IF found /\ ~app_owner_info.found
                   THEN [errors1 EXCEPT
                           !.support_groups_not_found = Append(@, support_group),
                           !.other_errors = IF app_owner_info.error # NoError
                                            THEN Append(@, "Error looking up app owners") ELSE @]
                   ELSE errors1
         groups == IF found
                   THEN MainAddHost(run.groups, support_group, hostname, run.parsed.issue_type,
                                    app_owner_info)
                   ELSE run.groups
         sg_calls == IF skipped THEN run.sg_calls ELSE Append(run.sg_calls, hostname)
         ao_calls == IF found THEN Append(run.ao_calls, support_group) ELSE run.ao_calls
         ticket_result == CollateResult(run.parsed.hosts, groups, errors)
     IN IF left # << >>
        THEN /\ run' = [run EXCEPT !.todo = left, !.groups = groups, !.errors = errors,
                                   !.sg_calls = sg_calls, !.ao_calls = ao_calls]
             /\ UNCHANGED <<result, agg>>
        ELSE /\ run' = AfterTicket(run, run.parsed, sg_calls, ao_calls)
             /\ result' = ticket_result
             /\ agg' = IF run.mode = "batch"
                       THEN Finalize(Merge(agg, ticket_result), run.left - 1) ELSE agg
  /\ UNCHANGED <<cvars, prog>>

\* the first sheet is edited, or the API starts or stops failing, while the
\* hostname loop is under way (the sheets are read nowhere else)
ChangeHostSheet ==
  /\ prog = "main"
  /\ run.pc = "loop"
  /\ assets' \in HostSheets \ {assets}
  /\ UNCHANGED <<now, cache, distros, enabled, cfgOk, last, fill, pvars>>

\* the second sheet is edited, or the API starts or stops failing, while the
\* hostname loop is under way
ChangeOwnerSheet ==
  /\ prog = "main"
  /\ run.pc = "loop"
  /\ distros' \in OwnerSheets \ {distros}
  /\ UNCHANGED <<now, cache, assets, enabled, cfgOk, last, fill, pvars>>

InitMain ==
  /\ now = 0
  /\ cache = << >>
  /\ assets \in HostSheets
  /\ distros \in OwnerSheets
  /\ enabled = FALSE
  /\ cfgOk = TRUE
  /\ last = NoCall
  /\ fill = [k \in Keys |-> Absent]
  /\ prog = "main"
  /\ run = Idle
  /\ result = Absent
  /\ agg = Absent

NextMain ==
  \/ MainBegin("collate", 1)
  \/ \E n \in 1..MaxTickets : MainBegin("batch", n)
  \/ TicketUnreadable
  \/ \E out \in ExtractorOutputs : TicketBegin(out)
  \/ CollateStep
  \/ ChangeHostSheet
  \/ ChangeOwnerSheet

SpecMain == InitMain /\ [][NextMain]_vars

\* both programs: process_tickets of refactor.py, or collate_ticket_results
\* and --batch of main.py
InitPipelines == InitProcess \/ InitMain

NextPipelines ==
  \/ TicketRun
  \/ BatchRun
  \/ ProcessStep
  \/ prog = "refactor" /\ ChangeAssets
  \/ prog = "refactor" /\ ChangeDistros
  \/ MainBegin("collate", 1)
  \/ \E n \in 1..MaxTickets : MainBegin("batch", n)
  \/ TicketUnreadable
  \/ \E out \in ExtractorOutputs : TicketBegin(out)
  \/ CollateStep
  \/ ChangeHostSheet
  \/ ChangeOwnerSheet

SpecPipelines == InitPipelines /\ [][NextPipelines]_vars

(***************************************************************************)
(* Properties of collate_ticket_results and --batch of main.py (SpecMain)  *)
(***************************************************************************)
\* collate_ticket_results has returned after going through its hostname loop
LoopReturned ==
  /\ prog = "main"
  /\ run.pc \in {"ticket", "done"}
  /\ result # Absent
  /\ run.parsed.kind = "json"
  /\ run.parsed.has_hosts
  /\ run.parsed.hosts # << >>

\* the hostnames of all the groups' hostname lists
Grouped(groups) == UNION {Range(groups[i].hostnames) : i \in 1..Len(groups)}

\* C6: for every pipeline run that reaches the resolution loop, the hostnames
\* of errors.hostnames_not_found and the hostnames of the groups' lists are
\* disjoint, and together they are the extracted hostnames (the entries of
\* hosts that carry a hostname).
C6_GroupedAndNotFoundPartitionExtracted ==
  LoopReturned =>
    LET grouped == Grouped(result.groups)
        not_found == Range(result.errors.hostnames_not_found)
    IN /\ grouped \cap not_found = {}
       /\ grouped \cup not_found = Range(run.parsed.hosts) \ {Empty}

\* each hostname occurs in at most one hostname list and once in it, and each
\* support group names one group
EachOnce(groups) ==
  /\ \A i, j \in 1..Len(groups) :
       /\ groups[i].support_group = groups[j].support_group => i = j
       /\ \A k \in 1..Len(groups[i].hostnames), l \in 1..Len(groups[j].hostnames) :
            groups[i].hostnames[k] = groups[j].hostnames[l] => (i = j /\ k = l)

\* C7: in every result each hostname occurs in at most one group's hostname
\* list and at most once in that list, and each support group occurs at most
\* once as a key of groups; the same holds of the merged groups of --batch
\* after any number of tickets.
C7_HostnameInOneGroupOnce ==
  prog = "main" =>
    /\ result # Absent => EachOnce(result.groups)
    /\ agg # Absent => EachOnce(agg.all_groups)

\* C8: within one pipeline run the contact resolver is invoked at most once
\* per support group: the contact lookups of one collate_ticket_results call
\* name each support group at most once. Stated for the runs whose extracted
\* hostnames are all different, so that a second lookup for a group is made
\* for a later hostname of the same group.
C8_ContactLookupOncePerGroup ==
  (/\ prog = "main"
   /\ run.pc \in {"loop", "ticket", "done"}
   /\ run.parsed.kind = "json"
   /\ run.parsed.has_hosts
   /\ \A h \in Range(run.parsed.hosts) : Count(run.parsed.hosts, h) = 1) =>
     \A i, j \in 1..Len(run.ao_calls) : run.ao_calls[i] = run.ao_calls[j] => i = j

\* C10: when extraction succeeds with an empty hostname list, the result
\* carries zero counts, no lookup was made, and nothing is recorded in any
\* error list.
C10_EmptyExtractionIsNoError ==
  (/\ prog = "main"
   /\ run.pc \in {"ticket", "done"}
   /\ result # Absent
   /\ run.parsed.kind = "json"
   /\ run.parsed.has_hosts
   /\ run.parsed.hosts = << >>) =>
     /\ ZeroCounts(result)
     /\ result.groups = << >>
     /\ run.sg_calls = << >>
     /\ run.ao_calls = << >>
     /\ \A f \in DOMAIN result.errors : result.errors[f] = << >>

(***************************************************************************)
(* Properties of both pipelines (SpecPipelines)                            *)
(***************************************************************************)
\* the step is a round of the resolution loop of process_tickets
IsProcessStep == prog = "refactor" /\ run.pc = "resolve" /\ run' # run

\* the step is a round of the hostname loop of collate_ticket_results
IsCollateStep == prog = "main" /\ run.pc = "loop" /\ run' # run

\* the step is a ticket of --batch that could not be read or whose
\* collate_ticket_results raised
IsFailedTicket ==
  /\ prog = "main"
  /\ run.pc = "ticket"
  /\ run.mode = "batch"
  /\ run' # run
  /\ run'.parsed.kind \in {"unreadable", "raise"}

\* the run goes on with the next hostname, or has returned its result
ProcessGoesOn ==
  /\ run'.todo = Tail(run.todo)
  /\ run'.sg_calls = Append(run.sg_calls, Head(run.todo))
  /\ IF run'.todo = << >> THEN run'.pc = "done" /\ result' # Absent
                          ELSE run'.pc = "resolve"

\* the ticket is over and the batch goes on with the next one, or has its
\* final summary
BatchGoesOn ==
  /\ run'.left = run.left - 1
  /\ IF run'.left > 0 THEN run'.pc = "ticket" /\ ~agg'.final
                      ELSE run'.pc = "done" /\ agg'.final

C13_BadFileRecordedOthersProcessed ==
  /\ (prog = "refactor" /\ run.pc \in {"resolve", "done"} /\ run.is_batch) =>
       /\ run.processed_files = run.files
       /\ Len(run.parsed) = Len(run.files)
       /\ \A i \in 1..Len(run.parsed) :
            /\ run.parsed[i].error # NoError =>
                 Contains(run.file_errors, <<run.files[i], run.parsed[i].error>>)
            /\ \A h \in Range(run.parsed[i].hostnames) :
                 /\ Contains(run.unique_hostnames, h)
                 /\ run.pc = "done" =>
                      /\ Contains(run.sg_calls, h)
                      /\ h \in Grouped(result.results)
                                 \cup Range(result.errors.hostnames_not_found)
       /\ run.pc = "done" => result.errors.file_errors = run.file_errors
  /\ (/\ LoopReturned
      /\ run.mode = "batch"
      /\ Contains(agg.all_errors.other_errors, "Failed to process")) =>
       Range(run.parsed.hosts) \ {Empty}
         \subseteq Grouped(agg.all_groups) \cup Range(agg.all_errors.hostnames_not_found)

\* a finished batch of process_tickets whose first file failed and whose
\* second file's hostnames were resolved
C13_Witness ==
  /\ prog = "refactor"
  /\ run.pc = "done"
  /\ run.is_batch
  /\ Len(run.files) = 2
  /\ run.parsed[1].error # NoError
  /\ run.parsed[2].hostnames # << >>
  /\ run.sg_calls = run.parsed[2].hostnames
  /\ result.errors.file_errors # << >>

\* a and b are the same string up to the case of their letters
SameIgnoringCase(a, b) ==
  /\ Len(a) = Len(b)
  /\ \A i \in 1..Len(a) : UpperChar(a[i]) = UpperChar(b[i])

\* the rows below the header whose cell in column col is the hostname, trimmed
\* and up to case
MatchingRows(rows, col, hostname) ==
  {i \in 2..Len(rows) : /\ Len(rows[i]) >= col
                        /\ rows[i][col] # None
                        /\ SameIgnoringCase(Strip(rows[i][col]), Strip(hostname))}

\* the hostname of this round went to the list of the not found, no group changed
WentToNotFound(h, not_found, not_found2, groups, groups2) ==
  /\ not_found2 = Append(not_found, h)
  /\ groups2 = groups

\* the hostname of this round went to the end of the hostname list of group name
WentToGroup(h, name, not_found, not_found2, groups2, field) ==
  /\ not_found2 = not_found
  /\ \E i \in 1..Len(groups2) :
       /\ groups2[i][field] = name
       /\ groups2[i].hostnames # << >>
       /\ groups2[i].hostnames[Len(groups2[i].hostnames)] = h

\* C14: a support-group lookup that reaches the source matches the hostname
\* case-insensitively and exactly, after trimming, against the identifier
\* column, skipping the header row; when several rows match it gives the
\* support group of the first matching row in source order, and with no
\* matching row it gives found = false. Stated for the lookups the two
\* pipelines make (process_tickets starts from an empty cache and asks for
\* each hostname once, so each of its lookups reaches the CSV): the hostname
\* goes to the group of the first matching row, or to hostnames_not_found.
C14_FirstMatchingRowWins ==
  [][/\ (/\ IsProcessStep
         /\ assets.exists
         /\ assets.rows # << >>
         /\ Len(Head(assets.rows)) > Max2(hostname_col, support_group_col)) =>
          LET h == Head(run.todo)
              m == MatchingRows(assets.rows, hostname_col + 1, h)
              first == CHOOSE i \in m : \A j \in m : i <= j
          IN IF m = {}
             THEN WentToNotFound(h, run.not_found, run'.not_found, run.groups, run'.groups)
             ELSE WentToGroup(h, assets.rows[first][support_group_col + 1],
                              run.not_found, run'.not_found, run'.groups,
                              "support_group_name")
     /\ (IsCollateStep /\ Head(run.todo) # Empty /\ assets.exists) =>
          LET h == Head(run.todo)
              m == MatchingRows(assets.rows, 3, h)
              first == CHOOSE i \in m : \A j \in m : i <= j
              over == Tail(run.todo) = << >>
              groups2 == IF over THEN result'.groups ELSE run'.groups
              not_found2 == IF over THEN result'.errors.hostnames_not_found
                            ELSE run'.errors.hostnames_not_found
          IN IF m = {}
             THEN WentToNotFound(h, run.errors.hostnames_not_found, not_found2,
                                 run.groups, groups2)
             ELSE WentToGroup(h, assets.rows[first][1], run.errors.hostnames_not_found,
                              not_found2, groups2, "support_group")
    ]_vars

\* a finished run of process_tickets with a hostname that two rows of the
\* assets CSV with different support groups match, grouped under the first
C14_Witness ==
  /\ prog = "refactor"
  /\ run.pc = "done"
  /\ assets.exists
  /\ assets.rows # << >>
  /\ Len(Head(assets.rows)) > Max2(hostname_col, support_group_col)
  /\ \E h \in Range(run.sg_calls) :
       LET m == MatchingRows(assets.rows, hostname_col + 1, h)
           first == CHOOSE i \in m : \A j \in m : i <= j
       IN /\ \E i, j \in m : assets.rows[i][support_group_col + 1]
                               # assets.rows[j][support_group_col + 1]
          /\ \E g \in 1..Len(result.results) :
               /\ result.results[g].support_group_name
                    = assets.rows[first][support_group_col + 1]
               /\ Contains(result.results[g].hostnames, h)

(***************************************************************************)
(* SpecParse: parse_ticket of refactor.py called on ticket texts made of   *)
(* up to MaxWords fragments ("S" stands for "Server:", "s" for "server:"). *)
(* result holds the file and what parse_ticket returned for it.            *)
(***************************************************************************)
MaxWords == 4

Fragments ==
  { <<"S", "a">>, <<"s", " ", "b">>, <<"S", " ", " ", "A">>, <<"S", "b", " ">>,
    <<"S">>, <<"a">>, <<" ">>, <<"\n">> }

RECURSIVE Flatten(_)
Flatten(words) == IF words = << >> THEN << >> ELSE Head(words) \o Flatten(Tail(words))

InitParse ==
  /\ now = 0
  /\ cache = << >>
  /\ assets = MissingFile
  /\ distros = MissingFile
  /\ enabled = TRUE
  /\ cfgOk = TRUE
  /\ last = NoCall
  /\ fill = [k \in Keys |-> Absent]
  /\ prog = "parse_ticket"
  /\ run = Idle
  /\ result = Absent
  /\ agg = Absent

\* parse_ticket(path) on a file with the given text
ParseText(words) ==
  /\ prog = "parse_ticket"
  /\ result = Absent
  /\ result' = [file |-> TicketOf(Flatten(words)), ret |-> parse_ticket(TicketOf(Flatten(words)))]
  /\ UNCHANGED <<cvars, prog, run, agg>>

\* parse_ticket(path) on a file that is missing or cannot be read
ParseBadFile(file) ==
  /\ prog = "parse_ticket"
  /\ result = Absent
  /\ result' = [file |-> file, ret |-> parse_ticket(file)]
  /\ UNCHANGED <<cvars, prog, run, agg>>

NextParse ==
  \/ \E n \in 0..MaxWords : \E words \in [1..n -> Fragments] : ParseText(words)
  \/ \E file \in {MissingTicket, UnreadableTicket} : ParseBadFile(file)

SpecParse == InitParse /\ [][NextParse]_vars

\* the index of the first occurrence of x in seq
FirstIndex(seq, x) == CHOOSE i \in 1..Len(seq) : seq[i] = x /\ \A j \in 1..(i - 1) : seq[j] # x

\* C15: for any ticket text the hostname list returned by the pattern-based
\* parse_ticket contains no string twice, holds the hostnames the pattern
\* finds in the text, and lists them in the order of their first occurrence
\* in the text.
C15_HostnamesUniqueInFirstOccurrenceOrder ==
  (prog = "parse_ticket" /\ result # Absent) =>
    LET hostnames == result.ret.hostnames
        found == StripAll(FindAll(result.file.text, 1))
    IN /\ \A i, j \in 1..Len(hostnames) : hostnames[i] = hostnames[j] => i = j
       /\ (result.file.exists /\ result.file.readable) =>
            /\ Range(hostnames) = Range(found)
            /\ \A i, j \in 1..Len(hostnames) :
                 i < j => FirstIndex(found, hostnames[i]) < FirstIndex(found, hostnames[j])

\* a text that names one hostname twice around another one
C15_Witness ==
  /\ prog = "parse_ticket"
  /\ result # Absent
  /\ result.ret.hostnames = <<HostB, HostA>>
  /\ StripAll(FindAll(result.file.text, 1)) = <<HostB, HostA, HostB>>

(***************************************************************************)
(* Properties of the summaries of main.py (SpecMain)                       *)
(***************************************************************************)
\* c is 100 * successful / total rounded to the nearest integer (0 if total
\* is 0) and lies in 0..100
IsCoverage(c, successful, total) ==
  /\ c \in 0..100
  /\ total = 0 => c = 0
  /\ total > 0 =>
       LET d == c * total - 100 * successful
       IN 2 * (IF d < 0 THEN -d ELSE d) <= total

\* the summary carries the coverage percentage of its counts
CoverageOf(summary) ==
  /\ "coverage_percentage" \in DOMAIN summary
  /\ IsCoverage(summary.coverage_percentage, summary.successful_lookups,
                summary.total_hostnames)

\* C16 as stated: coverage_percentage is 100 * successful_lookups /
\* total_hostnames rounded to the nearest integer, 0 when total_hostnames is
\* 0, and in 0..100, for every single-ticket result and for the batch total.
C16_CoverageInEveryResult ==
  prog = "main" =>
    /\ result # Absent => CoverageOf(result.summary)
    /\ (agg # Absent /\ agg.final) => CoverageOf(agg.total_summary)

\* C16 amended: the final batch total always carries coverage_percentage, a
\* single-ticket result carries it exactly when its hostname loop was run
\* (the results of the two short circuits, which are the ones with
\* total_hostnames 0, have none), and wherever it is carried it is 100 *
\* successful_lookups / total_hostnames rounded to the nearest integer, 0
\* when total_hostnames is 0, and in 0..100.
C16_CoverageWhereCarried ==
  prog = "main" =>
    /\ result # Absent =>
         IF LoopReturned
         THEN CoverageOf(result.summary) /\ result.summary.total_hostnames > 0
         ELSE /\ "coverage_percentage" \notin DOMAIN result.summary
              /\ result.summary.total_hostnames = 0
    /\ (agg # Absent /\ agg.final) => CoverageOf(agg.total_summary)
    /\ (agg # Absent /\ ~agg.final) =>
         "coverage_percentage" \notin DOMAIN agg.total_summary

\* a finished batch with two of three hostnames grouped: 67 percent
C16_Witness ==
  /\ prog = "main"
  /\ agg # Absent
  /\ agg.final
  /\ agg.total_summary.total_hostnames = 3
  /\ agg.total_summary.successful_lookups = 2
  /\ agg.total_summary.coverage_percentage = 67

\* the step ends a ticket of --batch with a result, which it merges
IsMerge ==
  /\ prog = "main"
  /\ run.pc \in {"ticket", "loop"}
  /\ run.mode = "batch"
  /\ run'.left = run.left - 1
  /\ result' # Absent

\* seq holds no element twice
NoRepeat(seq) == \A i, j \in 1..Len(seq) : seq[i] = seq[j] => i = j

\* C17: when a ticket's result is merged in the batch, a group already present
\* from an earlier ticket keeps its contact fields, its hostname list becomes
\* the earlier list followed by the ticket's list, and its issue types become
\* the union of both with no tag repeated; a group not in the ticket's result
\* stays as it is.
C17_MergeKeepsContactsAppendsHostnames ==
  [][IsMerge =>
       /\ Len(agg'.all_groups) >= Len(agg.all_groups)
       /\ \A i \in 1..Len(agg.all_groups) :
            LET old == agg.all_groups[i]
                new == agg'.all_groups[i]
                same == {j \in 1..Len(result'.groups) :
                           result'.groups[j].support_group = old.support_group}
            IN /\ new.support_group = old.support_group
               /\ new.email_distros = old.email_distros
               /\ new.individual_contacts = old.individual_contacts
               /\ same = {} => new = old
               /\ \A j \in same :
                    /\ new.hostnames = old.hostnames \o result'.groups[j].hostnames
                    /\ Range(new.issue_types)
                         = Range(old.issue_types) \cup Range(result'.groups[j].issue_types)
                    /\ NoRepeat(old.issue_types) => NoRepeat(new.issue_types)
    ]_vars

\* a merged group that kept the contacts of the earlier ticket, which differ
\* from those of the latest ticket, and holds the hostnames and the issue
\* types of both
C17_Witness ==
  /\ prog = "main"
  /\ agg # Absent
  /\ agg.final
  /\ result # Absent
  /\ \E i \in 1..Len(agg.all_groups), j \in 1..Len(result.groups) :
       /\ agg.all_groups[i].support_group = result.groups[j].support_group
       /\ agg.all_groups[i].email_distros # result.groups[j].email_distros
       /\ Len(agg.all_groups[i].hostnames) > Len(result.groups[j].hostnames)
       /\ Len(agg.all_groups[i].issue_types) = 2

(***************************************************************************)
(* SpecRace: two callers run SimpleCache.get and SimpleCache.set on one    *)
(* key, one statement at a time.                                           *)
(*   run[p]: where caller p stands (pc), the entry it read (entry), the    *)
(*           value it is about to store (value, timestamp) and what its    *)
(*           latest get returned (ret, and at, the time of a hit); pc      *)
(*           "raised" after a KeyError                                     *)
(*   fill[v]: the timestamp of the latest set that stored value v          *)
(***************************************************************************)
Callers == {1, 2}

RaceKey == SgKey(HostA)

Resting == [pc |-> "idle"]

NeverStored == [stored |-> FALSE, timestamp |-> 0]

InitRace ==
  /\ now = 0
  /\ cache = << >>
  /\ assets = MissingFile
  /\ distros = MissingFile
  /\ enabled = TRUE
  /\ cfgOk = TRUE
  /\ last = NoCall
  /\ fill = [v \in ApiValues |-> NeverStored]
  /\ prog = "race"
  /\ run = [p \in Callers |-> Resting]
  /\ result = Absent
  /\ agg = Absent

\* the clock moves on between two statements
RaceTick ==
  /\ prog = "race"
  /\ now < MaxTime
  /\ now' = now + 1
  /\ UNCHANGED <<cache, assets, distros, enabled, cfgOk, last, fill, pvars>>

\* get, line 25: if key in self._cache (else line 31: return None)
GetMembership(p) ==
  /\ prog = "race"
  /\ run[p].pc = "idle"
  /\ run' = [run EXCEPT ![p] = IF RaceKey \in DOMAIN cache THEN [pc |-> "read"]
                                ELSE [pc |-> "idle", ret |-> Absent]]
  /\ UNCHANGED <<cvars, prog, result, agg>>

\* get, line 26: value, timestamp = self._cache[key] (KeyError if gone)
GetRead(p) ==
  /\ prog = "race"
  /\ run[p].pc = "read"
  /\ run' = [run EXCEPT ![p] = IF RaceKey \in DOMAIN cache
                                THEN [pc |-> "expiry", entry |-> cache[RaceKey]]
                                ELSE [pc |-> "raised"]]
  /\ UNCHANGED <<cvars, prog, result, agg>>

\* get, line 27: if datetime.now() - timestamp < self._ttl: return value
GetExpiry(p) ==
  /\ prog = "race"
  /\ run[p].pc = "expiry"
  /\ run' = [run EXCEPT ![p] = IF now - run[p].entry.timestamp < TTL
                                THEN [pc |-> "idle", ret |-> run[p].entry.value, at |-> now]
                                ELSE [pc |-> "delete"]]
  /\ UNCHANGED <<cvars, prog, result, agg>>

\* get, lines 30-31: del self._cache[key] (KeyError if gone); return None
GetDelete(p) ==
  /\ prog = "race"
  /\ run[p].pc = "delete"
  /\ IF RaceKey \in DOMAIN cache
     THEN /\ cache' = CacheDrop(cache, RaceKey)
          /\ run' = [run EXCEPT ![p] = [pc |-> "idle", ret |-> Absent]]
     ELSE /\ cache' = cache
          /\ run' = [run EXCEPT ![p] = [pc |-> "raised"]]
  /\ UNCHANGED <<now, assets, distros, enabled, cfgOk, last, fill, prog, result, agg>>

\* set, line 34, right-hand side: (value, datetime.now())
SetStamp(p, value) ==
  /\ prog = "race"
  /\ run[p].pc = "idle"
  /\ run' = [run EXCEPT ![p] = [pc |-> "store", value |-> value, timestamp |-> now]]
  /\ UNCHANGED <<cvars, prog, result, agg>>

\* set, line 34: self._cache[key] = ...
SetStore(p) ==
  /\ prog = "race"
  /\ run[p].pc = "store"
  /\ cache' = CacheStore(cache, RaceKey,
                         [value |-> run[p].value, timestamp |-> run[p].timestamp])
  /\ fill' = [fill EXCEPT ![run[p].value] =
                [stored |-> TRUE,
                 timestamp |-> IF @.stored THEN Max2(@.timestamp, run[p].timestamp)
                               ELSE run[p].timestamp]]
  /\ run' = [run EXCEPT ![p] = Resting]
  /\ UNCHANGED <<now, assets, distros, enabled, cfgOk, last, prog, result, agg>>

NextRace ==
  \/ RaceTick
  \/ \E p \in Callers : GetMembership(p)
  \/ \E p \in Callers : GetRead(p)
  \/ \E p \in Callers : GetExpiry(p)
  \/ \E p \in Callers : GetDelete(p)
  \/ \E p \in Callers, v \in ApiValues : SetStamp(p, v)
  \/ \E p \in Callers : SetStore(p)

SpecRace == InitRace /\ [][NextRace]_vars

\* C18: when two callers interleave the statements of SimpleCache.get and
\* SimpleCache.set on one key, no data is corrupted: every get completes (none
\* ends in an exception) and returns either None or a value that some set
\* stored for the key less than TTL before the get's expiry test.
C18_RaceNeverCorrupts ==
  prog = "race" =>
    \A p \in Callers :
      /\ run[p].pc # "raised"
      /\ ("ret" \in DOMAIN run[p] /\ run[p].ret # Absent) =>
           /\ fill[run[p].ret].stored
           /\ run[p].at - fill[run[p].ret].timestamp < TTL

(***************************************************************************)
(* Order of the output of process_tickets                                  *)
(***************************************************************************)

\* the hostnames of the visited files, file after file
RECURSIVE Extracted(_)
Extracted(parsed) ==
  IF parsed = << >> THEN << >> ELSE Head(parsed).hostnames \o Extracted(Tail(parsed))

\* order lists each element of seq once, by first occurrence in seq
IsFirstSeenOrder(order, seq) ==
  /\ Range(order) = Range(seq)
  /\ \A i, j \in 1..Len(order) : i < j => FirstIndex(seq, order[i]) < FirstIndex(seq, order[j])

\* a is b with some elements left out
RECURSIVE IsSubseq(_, _)
IsSubseq(a, b) ==
  IF a = << >> THEN TRUE
  ELSE IF b = << >> THEN FALSE
  ELSE IF Head(a) = Head(b) THEN IsSubseq(Tail(a), Tail(b))
  ELSE IsSubseq(a, Tail(b))

\* the lookups made and still to make are the extracted hostnames in order,
\* and every output list is a subsequence of the lookups made
OutputInLookupOrder ==
  (prog = "refactor" /\ run.pc \in {"resolve", "done"}) =>
    LET lookups == run.sg_calls \o run.todo
        extracted == Extracted(run.parsed)
    IN /\ IF run.is_batch THEN IsFirstSeenOrder(lookups, extracted) ELSE lookups = extracted
       /\ IsSubseq(run.not_found, run.sg_calls)
       /\ \A i \in 1..Len(run.groups) : IsSubseq(run.groups[i].hostnames, run.sg_calls)

\* a round of the loop looks up the next hostname and appends it to
\* hostnames_not_found, to a group already there, or to a new last group
RoundKeepsOrder ==
  LET hostname == Head(run.todo)
      n == Len(run.groups)
  IN /\ run'.sg_calls = Append(run.sg_calls, hostname)
     /\ \/ /\ run'.not_found = Append(run.not_found, hostname)
           /\ run'.groups = run.groups
        \/ /\ run'.not_found = run.not_found
           /\ Len(run'.groups) \in {n, n + 1}
           /\ \A i \in 1..n :
                /\ run'.groups[i].support_group_name = run.groups[i].support_group_name
                /\ run'.groups[i].hostnames \in
                     {run.groups[i].hostnames, Append(run.groups[i].hostnames, hostname)}
           /\ Len(run'.groups) = n + 1 => run'.groups[n + 1].hostnames = <<hostname>>
           /\ Len(run'.groups) = n =>
                \E i \in 1..n : run'.groups[i].hostnames = Append(run.groups[i].hostnames, hostname)

\* C19: output order follows input order: the support-group lookups are made
\* in extraction order (file-list order, then order within the file, first
\* occurrence for the duplicates of a batch), each group's hostname list and
\* hostnames_not_found are subsequences of that order, and groups are created
\* in the order in which their first hostname was resolved.
C19_OutputFollowsInputOrder ==
  [][/\ OutputInLookupOrder'
     /\ IsProcessStep => RoundKeepsOrder]_vars

\* a batch over several files with a hostname met twice has ended with two
\* groups, one of them holding two hostnames
C19_Witness ==
  /\ prog = "refactor"
  /\ run.pc = "done"
  /\ run.is_batch
  /\ Len(run.files) > 1
  /\ run.unique_hostnames # run.all_hostnames
  /\ Len(run.groups) = 2
  /\ \E i \in 1..2 : Len(run.groups[i].hostnames) = 2

(***************************************************************************)
(* Inputs of a batch that resolve to no ticket file                        *)
(***************************************************************************)

\* C22: in a batch run, an input argument that resolves to no ticket file (a
\* path that does not exist, a pattern with no match) is recorded as a
\* file-level error of the batch result and skipped, and the files of the
\* other inputs are all processed.
C22_UnresolvableInputRecorded ==
  (prog = "refactor" /\ run.pc = "done" /\ run.is_batch) =>
    /\ run.processed_files = Flatten(run.expanded)
    /\ result.errors.file_errors = run.file_errors
    /\ \A i \in 1..Len(run.file_inputs) :
         run.expanded[i] = << >> =>
           \E j \in 1..Len(run.file_errors) : run.file_errors[j][1] = run.file_inputs[i]

(***************************************************************************)
(* Summary counts of both pipelines                                        *)
(***************************************************************************)

\* C23: the summary counts of a pipeline result agree with its content:
\* total_hostnames is the number of hostnames in all the groups' lists plus
\* the number of entries of hostnames_not_found, the group count is the number
\* of keys of the groups mapping, and the not-found count is the length of
\* hostnames_not_found.
C23_SummaryCountsMatchContent ==
  /\ (prog = "refactor" /\ "summary" \in DOMAIN result) =>
       /\ result.summary.total_hostnames =
            SumLen(result.results) + Len(result.errors.hostnames_not_found)
       /\ result.summary.grouped_into = Len(result.results)
       /\ result.summary.not_found = Len(result.errors.hostnames_not_found)
  /\ (prog = "main" /\ "summary" \in DOMAIN result) =>
       /\ result.summary.total_hostnames =
            SumLen(result.groups) + Len(result.errors.hostnames_not_found)
       /\ result.summary.total_support_groups = Len(result.groups)
       /\ result.summary.failed_lookups = Len(result.errors.hostnames_not_found)

(***************************************************************************)
(* Support-group identifiers of found results                              *)
(***************************************************************************)

\* C24: every support-group lookup result with found = true carries a
\* support-group identifier that is not None, so every key of the groups
\* mapping of a pipeline result is an identifier taken from the source, also
\* when the support-group cell of the matching row is empty.
C24_FoundResultNamesAGroup ==
  (prog = "refactor") =>
    /\ \A k \in DOMAIN cache :
         (k[1] = "support_group" /\ cache[k].value.found) => cache[k].value.support_group # None
    /\ run.pc \in {"resolve", "done"} =>
         \A i \in 1..Len(run.groups) : run.groups[i].support_group_name # None

(***************************************************************************)
(* SpecDisabled: the configuration has cache.enabled false.  The resolvers *)
(* are called while the module's cache object is also written and cleared  *)
(* by its other users and the clock moves; the CSV files are any of their  *)
(* states and stay as they are.                                            *)
(***************************************************************************)

\* results somebody may store under a key
StoredValues(key) ==
  IF key[1] = "support_group"
  THEN {SgResult(key[2], GroupY, TRUE, NoError), SgResult(key[2], None, FALSE, NoError)}
  ELSE {AoResult(key[2], NoContacts, FALSE, NoError)}

InitDisabled ==
  /\ now = 0
  /\ cache = << >>
  /\ assets \in AssetsFiles
  /\ distros \in DistrosFiles
  /\ enabled = FALSE
  /\ cfgOk \in BOOLEAN
  /\ last = NoCall
  /\ fill = [k \in Keys |-> Absent]
  /\ NoPipeline

\* cache.set(key, value) on the module's cache object
DirectSet(key, value) ==
  /\ cache' = CacheSet(cache, key, value, now)
  /\ last' = [op |-> "set", key |-> key, value |-> value]
  /\ UNCHANGED <<now, assets, distros, enabled, cfgOk, fill>>
  /\ UNCHANGED pvars

NextDisabled ==
  \/ Tick
  \/ \E h \in HostArgs, u \in BOOLEAN : LookupHost(h, u)
  \/ \E g \in GroupArgs, u \in BOOLEAN : LookupGroup(g, u)
  \/ ClearCache
  \/ \E k \in Keys : \E v \in StoredValues(k) : DirectSet(k, v)

SpecDisabled == InitDisabled /\ [][NextDisabled]_vars

\* C25: when caching is disabled in the configuration the resolvers neither
\* read nor write the cache: every get_support_group and get_app_owners call
\* goes to the source and returns its answer, whatever the cache holds for the
\* key, and leaves the cache content as it was.
C25_DisabledCacheUntouched ==
  [][(IsCall(last') /\ ~enabled)
     => (/\ cache' = cache
         /\ last'.read = cfgOk
         /\ last'.ret = FreshAnswer(last'.key, assets, distros, cfgOk))]_vars

\* with caching disabled, a default call has read the source and returned its
\* answer although the cache holds a fresh entry with another result for its
\* key; the entry is still there
C25_Witness ==
  /\ IsCall(last)
  /\ ~enabled
  /\ last.use_cache
  /\ last.read
  /\ last.was = "fresh"
  /\ last.key \in DOMAIN cache
  /\ cache[last.key].value # last.ret
  /\ \E k \in DOMAIN cache : now - cache[k].timestamp >= TTL

====
